---- MODULE Spec2Model ----
(***************************************************************************)
(* A model of dtcalc: the tokenizer, the precedence-climbing parser, the   *)
(* unit table of BinOp, and the evaluator with its identifier bindings.    *)
(* Source text is a sequence of one-character strings; a token's value is  *)
(* the slice of the source it matched.                                     *)
(***************************************************************************)
EXTENDS Integers, Sequences, FiniteSets, TLC

VARIABLES
    phase,        \* where the caller is: "source", "lexed", "parsed", "failed", "idle"
    source,       \* the string handed to parse / tokenize
    tokens,       \* the token list; _parse pops from its front
    error,        \* the exception the last call raised, or NoError
    root,         \* DTCalc.root
    identifiers,  \* DTCalc.identifiers: name -> reference to an Identifier object
    objs,         \* the Identifier objects allocated so far (their names)
    dt,           \* per Identifier object: its _dt attribute, or Unset when it has none
    result,       \* what the last evaluate call returned, or NoValue
    built,        \* the outcome of the last direct BinOp(op, lhs, rhs) construction
    last,         \* the last call made on the parsed expression
    lastSet       \* history: per name, the value most recently passed to set_value

vars == <<phase, source, tokens, error, root, identifiers, objs, dt, result,
          built, last, lastSet>>

----------------------------------------------------------------------------
(* Bounds of the model *)

MaxPieces == 3
MaxTokens == 3
MaxAtoms == 3
MaxDepth == 2
MaxKwargs == 2

----------------------------------------------------------------------------
(* Characters *)

Digits == {"0", "1", "2", "3", "4", "5", "6", "7", "8", "9"}

Lower == {"a", "b", "c", "d", "e", "f", "g", "h", "i", "j", "k", "l", "m",
          "n", "o", "p", "q", "r", "s", "t", "u", "v", "w", "x", "y", "z"}

Upper == {"A", "B", "C", "D", "E", "F", "G", "H", "I", "J", "K", "L", "M",
          "N", "O", "P", "Q", "R", "S", "T", "U", "V", "W", "X", "Y", "Z"}

\* \d, [A-Za-z] and \w of the token patterns (ASCII part).
IsDigit(c) == c \in Digits
IsAlpha(c) == c \in Lower \cup Upper
IsWord(c) == IsAlpha(c) \/ IsDigit(c) \/ c = "_"

\* The character of s at position i (1-based), or "" past the end.
At(s, i) == IF i >= 1 /\ i <= Len(s) THEN s[i] ELSE ""

Slice(s, i, j) == SubSeq(s, i, j - 1)

----------------------------------------------------------------------------
(* Exceptions *)

NoError == [type |-> "none", line |-> 0]
Raise(t, l) == [type |-> t, line |-> l]

----------------------------------------------------------------------------
(* Token patterns.  Each matcher is regex.match(s, pos=i): it returns the   *)
(* position just after the match, or 0 when the pattern does not match at  *)
(* i.  Positions are 1-based.                                              *)

RECURSIVE DigitsEnd(_, _)
\* \d+ taken greedily from i: the first position at or after i with no digit.
DigitsEnd(s, i) == IF IsDigit(At(s, i)) THEN DigitsEnd(s, i + 1) ELSE i

RECURSIVE WordEnd(_, _)
\* \w* taken greedily from i.
WordEnd(s, i) == IF IsWord(At(s, i)) THEN WordEnd(s, i + 1) ELSE i

\* \d+(\.\d+)?  The optional group is taken when a dot and a digit follow.
MatchNumber(s, i) ==
    IF ~IsDigit(At(s, i)) THEN 0
    ELSE LET j == DigitsEnd(s, i)
         IN  IF At(s, j) = "." /\ IsDigit(At(s, j + 1))
             THEN DigitsEnd(s, j + 1)
             ELSE j

DurationSuffixes == {"w", "d", "h", "m", "s"}

\* \d+(\.\d+)?[wdhms]  Backtracking never helps: the character after a
\* shorter run of digits is a digit, and the one after the integer part of a
\* number with a fraction is the dot; neither is a suffix.
MatchDuration(s, i) ==
    LET j == MatchNumber(s, i)
    IN  IF j # 0 /\ At(s, j) \in DurationSuffixes THEN j + 1 ELSE 0

\* n digits at i .. i+n-1
RECURSIVE AreDigits(_, _, _)
AreDigits(s, i, n) ==
    IF n = 0 THEN TRUE ELSE IsDigit(At(s, i)) /\ AreDigits(s, i + 1, n - 1)

\* \d{4}-\d{2}-\d{2}T\d{2}:\d{2}:\d{2}(Z|[-+]\d{2}:\d{2})
MatchDatetime(s, i) ==
    IF /\ AreDigits(s, i, 4) /\ At(s, i + 4) = "-"
       /\ AreDigits(s, i + 5, 2) /\ At(s, i + 7) = "-"
       /\ AreDigits(s, i + 8, 2) /\ At(s, i + 10) = "T"
       /\ AreDigits(s, i + 11, 2) /\ At(s, i + 13) = ":"
       /\ AreDigits(s, i + 14, 2) /\ At(s, i + 16) = ":"
       /\ AreDigits(s, i + 17, 2)
    THEN IF At(s, i + 19) = "Z" THEN i + 20
         ELSE IF /\ At(s, i + 19) \in {"-", "+"}
                 /\ AreDigits(s, i + 20, 2) /\ At(s, i + 22) = ":"
                 /\ AreDigits(s, i + 23, 2)
              THEN i + 25
              ELSE 0
    ELSE 0

\* [A-Za-z]\w*
MatchIdentifier(s, i) == IF IsAlpha(At(s, i)) THEN WordEnd(s, i + 1) ELSE 0

MatchLeftParen(s, i) == IF At(s, i) = "(" THEN i + 1 ELSE 0

MatchRightParen(s, i) == IF At(s, i) = ")" THEN i + 1 ELSE 0

\* (\+|\-|\*|\/)
MatchBinOp(s, i) == IF At(s, i) \in {"+", "-", "*", "/"} THEN i + 1 ELSE 0

NoMatch == [end |-> 0, type |-> "none"]

\* The for loop over token_patterns: the first pattern, in the list's order,
\* that matches at i.
FirstMatch(s, i) ==
    IF MatchDatetime(s, i) # 0
        THEN [end |-> MatchDatetime(s, i), type |-> "LITERAL_DATETIME"]
    ELSE IF MatchDuration(s, i) # 0
        THEN [end |-> MatchDuration(s, i), type |-> "LITERAL_DURATION"]
    ELSE IF MatchNumber(s, i) # 0
        THEN [end |-> MatchNumber(s, i), type |-> "LITERAL_NUMBER"]
    ELSE IF MatchIdentifier(s, i) # 0
        THEN [end |-> MatchIdentifier(s, i), type |-> "IDENTIFIER"]
    ELSE IF MatchLeftParen(s, i) # 0
        THEN [end |-> MatchLeftParen(s, i), type |-> "LEFT_PAREN"]
    ELSE IF MatchRightParen(s, i) # 0
        THEN [end |-> MatchRightParen(s, i), type |-> "RIGHT_PAREN"]
    ELSE IF MatchBinOp(s, i) # 0
        THEN [end |-> MatchBinOp(s, i), type |-> "BINOP"]
    ELSE NoMatch

Token(type, value) == [type |-> type, value |-> value]

\* A mutant of IsChomped: every whitespace character is skipped.
IsChompedAnySpace(c) == c \in {" ", "\t", "\n"}

\* "Chomp whitespace": the test s[i] == " ".
IsChomped(c) == c = " "

RECURSIVE TokenizeFrom(_, _, _)
\* The while loop of tokenize, from position i with the tokens found so far.
TokenizeFrom(s, i, toks) ==
    IF i > Len(s) THEN [error |-> NoError, tokens |-> toks]
    ELSE IF IsChomped(s[i]) THEN TokenizeFrom(s, i + 1, toks)
    ELSE LET m == FirstMatch(s, i)
         IN  IF m.end = 0
             THEN [error |-> Raise("RuntimeError", 251), tokens |-> toks]
             ELSE TokenizeFrom(s, m.end,
                               Append(toks, Token(m.type, Slice(s, i, m.end))))

tokenize(s) == TokenizeFrom(s, 1, <<>>)

----------------------------------------------------------------------------
(* Units and AST nodes *)

UnitTypes == {"DATETIME", "DURATION", "NUMBER"}

Operators == {"+", "-", "*", "/"}

DatetimeLiteral(text) == [node |-> "DatetimeLiteral", text |-> text, unit |-> "DATETIME"]

DurationLiteral(text) == [node |-> "DurationLiteral", text |-> text, unit |-> "DURATION"]

NumberLiteral(text) == [node |-> "NumberLiteral", text |-> text, unit |-> "NUMBER"]

\* An Identifier node in a tree is a reference to an Identifier object: ref
\* indexes objs (the object's name) and dt (its _dt attribute).
Identifier(ref) == [node |-> "Identifier", ref |-> ref, unit |-> "DATETIME"]

\* A mutant of allowed_ops: the DATETIME + DATETIME guard is missing.
allowed_ops_DatPlusDat ==
    { <<"NUMBER", "NUMBER", o, "NUMBER">> : o \in Operators }
    \cup { <<"NUMBER", "DURATION", "*", "DURATION">>,
           <<"DURATION", "NUMBER", "*", "DURATION">>,
           <<"DURATION", "NUMBER", "/", "DURATION">>,
           <<"DURATION", "DURATION", "+", "DURATION">>,
           <<"DURATION", "DURATION", "-", "DURATION">>,
           <<"DURATION", "DATETIME", "+", "DATETIME">>,
           <<"DURATION", "DATETIME", "-", "DATETIME">>,
           <<"DATETIME", "DURATION", "+", "DATETIME">>,
           <<"DATETIME", "DURATION", "-", "DATETIME">>,
           <<"DATETIME", "DATETIME", "+", "DURATION">>,
           <<"DATETIME", "DATETIME", "-", "DURATION">> }

\* The dictionary of _check_units: <<left unit, right unit, op, result unit>>.
allowed_ops ==
    { <<"NUMBER", "NUMBER", "*", "NUMBER">>,
      <<"NUMBER", "NUMBER", "/", "NUMBER">>,
      <<"NUMBER", "NUMBER", "+", "NUMBER">>,
      <<"NUMBER", "NUMBER", "-", "NUMBER">>,
      <<"NUMBER", "DURATION", "*", "DURATION">>,
      <<"DURATION", "NUMBER", "*", "DURATION">>,
      <<"DURATION", "NUMBER", "/", "DURATION">>,
      <<"DURATION", "DURATION", "+", "DURATION">>,
      <<"DURATION", "DURATION", "-", "DURATION">>,
      <<"DURATION", "DATETIME", "+", "DATETIME">>,
      <<"DURATION", "DATETIME", "-", "DATETIME">>,
      <<"DATETIME", "DURATION", "+", "DATETIME">>,
      <<"DATETIME", "DURATION", "-", "DATETIME">>,
      <<"DATETIME", "DATETIME", "-", "DURATION">> }

\* allowed_ops.get((lunit, runit, op), None)
_check_units(op, lunit, runit) ==
    IF \E row \in allowed_ops : row[1] = lunit /\ row[2] = runit /\ row[3] = op
    THEN (CHOOSE row \in allowed_ops :
              row[1] = lunit /\ row[2] = runit /\ row[3] = op)[4]
    ELSE "None"

NoNode == [node |-> "none", unit |-> "None"]

\* BinOp.__init__: the node, or the TypeError of an incompatible pair.
BinOp(op, lhs, rhs) ==
    LET final_unit == _check_units(op, lhs.unit, rhs.unit)
    IN  IF final_unit = "None"
        THEN [error |-> Raise("TypeError", 124), node |-> NoNode]
        ELSE [error |-> NoError,
              node |-> [node |-> "BinOp", op |-> op, lhs |-> lhs, rhs |-> rhs,
                        unit |-> final_unit]]

\* BinOp.precedence
precedence(op) == IF op \in {"+", "-"} THEN 1 ELSE 2

----------------------------------------------------------------------------
(* The parser.  A parser state is the token list still to read, the        *)
(* identifier table, the Identifier objects allocated so far, and either   *)
(* the node just parsed or the exception raised.                           *)

\* The IDENTIFIER case of _parse_atom: the table's entry for the name,
\* created on its first occurrence.
LookupIdentifier(name, ids, os) ==
    IF name \in DOMAIN ids
    THEN [ref |-> ids[name], identifiers |-> ids, objs |-> os]
    ELSE [ref |-> Len(os) + 1,
          identifiers |-> (name :> (Len(os) + 1)) @@ ids,
          objs |-> Append(os, [name |-> name])]

PState(err, node, toks, ids, os) ==
    [error |-> err, node |-> node, tokens |-> toks, identifiers |-> ids, objs |-> os]

\* A mutant of RhsMinPrecedence: the right-hand side is parsed at the
\* operator's own level, which groups equal operators to the right.
RhsMinPrecedenceSame(p) == p

\* min_precedence=(precedence + 1) of the recursive call for the RHS.
RhsMinPrecedence(p) == p + 1

RECURSIVE _parse_atom(_, _, _)
RECURSIVE _parse(_, _, _, _)
RECURSIVE ParseLoop(_, _)

_parse_atom(toks, ids, os) ==
    IF Len(toks) = 0
    THEN PState(Raise("RuntimeError", 271), NoNode, toks, ids, os)
    ELSE LET token == Head(toks)
             rest == Tail(toks)
         IN  CASE token.type = "LITERAL_DATETIME" ->
                    PState(NoError, DatetimeLiteral(token.value), rest, ids, os)
               [] token.type = "LITERAL_DURATION" ->
                    PState(NoError, DurationLiteral(token.value), rest, ids, os)
               [] token.type = "LITERAL_NUMBER" ->
                    PState(NoError, NumberLiteral(token.value), rest, ids, os)
               [] token.type = "IDENTIFIER" ->
                    LET e == LookupIdentifier(token.value, ids, os)
                    IN  PState(NoError, Identifier(e.ref), rest, e.identifiers, e.objs)
               [] token.type = "LEFT_PAREN" ->
                    LET expr == _parse(rest, ids, os, 0)
                    IN  IF expr.error # NoError THEN expr
                        ELSE IF Len(expr.tokens) = 0
                        THEN [expr EXCEPT !.error = Raise("ParseError", 294)]
                        ELSE IF Head(expr.tokens).type # "RIGHT_PAREN"
                        THEN [expr EXCEPT !.error = Raise("ParseError", 299),
                                          !.tokens = Tail(expr.tokens)]
                        ELSE [expr EXCEPT !.tokens = Tail(expr.tokens)]
               [] OTHER ->
                    PState(Raise("ParseError", 306), NoNode, rest, ids, os)

\* The while loop of _parse, with st.node the lhs accumulated so far.
ParseLoop(st, min_precedence) ==
    IF Len(st.tokens) = 0 \/ Head(st.tokens).type # "BINOP" THEN st
    ELSE LET token == Head(st.tokens)
             op == token.value[1]   \* the operator's one character
             p == precedence(op)
         IN  IF p < min_precedence THEN st
             ELSE IF token.type # "BINOP"
             THEN [st EXCEPT !.error = Raise("ParseError", 334),
                             !.tokens = Tail(st.tokens)]
             ELSE LET rhs == _parse(Tail(st.tokens), st.identifiers, st.objs,
                                    RhsMinPrecedence(p))
                  IN  IF rhs.error # NoError THEN rhs
                      ELSE LET b == BinOp(op, st.node, rhs.node)
                           IN  IF b.error # NoError
                               THEN [rhs EXCEPT !.error = b.error]
                               ELSE ParseLoop([rhs EXCEPT !.node = b.node],
                                              min_precedence)

_parse(toks, ids, os, min_precedence) ==
    LET lhs == _parse_atom(toks, ids, os)
    IN  IF lhs.error # NoError THEN lhs ELSE ParseLoop(lhs, min_precedence)

\* The empty dict / list of from_string.
EmptyTable == [n \in {} |-> 0]

\* DTCalc.from_string after tokenize: root = _parse(tokens, identifiers).
from_tokens(toks) == _parse(toks, EmptyTable, <<>>, 0)

----------------------------------------------------------------------------
(* Runtime values.  A float and a timedelta (in seconds) are held as exact  *)
(* fractions n/d in lowest terms with d > 0; rounding is not modelled.  A   *)
(* datetime is its wall-clock reading in seconds since 1970-01-01T00:00:00, *)
(* with its UTC offset when it is aware.                                   *)

Abs(x) == IF x < 0 THEN -x ELSE x

RECURSIVE GCD(_, _)
GCD(a, b) == IF b = 0 THEN a ELSE GCD(b, a % b)

Float(n, d) ==
    LET g == GCD(Abs(n), Abs(d))
        sg == IF d < 0 THEN -1 ELSE 1
    IN  [kind |-> "float", n |-> sg * (n \div g), d |-> sg * (d \div g)]

Timedelta(n, d) == [Float(n, d) EXCEPT !.kind = "timedelta"]

Datetime(n, d, aware, utcoffset) ==
    [kind |-> "datetime", n |-> Float(n, d).n, d |-> Float(n, d).d,
     aware |-> aware, utcoffset |-> utcoffset]

None == [kind |-> "NoneType"]

\* An Identifier object on which set_value was never called has no _dt.
Unset == [kind |-> "no attribute"]

NoValue == [kind |-> "no value"]

DigitValue(c) ==
    CASE c = "0" -> 0 [] c = "1" -> 1 [] c = "2" -> 2 [] c = "3" -> 3
      [] c = "4" -> 4 [] c = "5" -> 5 [] c = "6" -> 6 [] c = "7" -> 7
      [] c = "8" -> 8 [] c = "9" -> 9

RECURSIVE IntOf(_)
\* The number a run of decimal digits denotes.
IntOf(text) ==
    IF Len(text) = 0 THEN 0
    ELSE 10 * IntOf(SubSeq(text, 1, Len(text) - 1)) + DigitValue(text[Len(text)])

RECURSIVE Pow10(_)
Pow10(k) == IF k = 0 THEN 1 ELSE 10 * Pow10(k - 1)

\* float(text) for a text of the number pattern: digits, then perhaps a dot
\* and digits.
float(text) ==
    LET j == DigitsEnd(text, 1)
    IN  IF j > Len(text) THEN Float(IntOf(text), 1)
        ELSE LET frac == SubSeq(text, j + 1, Len(text))
             IN  Float(IntOf(SubSeq(text, 1, j - 1)) * Pow10(Len(frac)) + IntOf(frac),
                       Pow10(Len(frac)))

\* _duration_codes and timedelta(**{unit: num}): the seconds in one unit.
SecondsPer(code) ==
    CASE code = "s" -> 1 [] code = "m" -> 60 [] code = "h" -> 3600
      [] code = "d" -> 86400 [] code = "w" -> 604800

\* DurationLiteral._evaluate
DurationValue(text) ==
    LET num == float(SubSeq(text, 1, Len(text) - 1))
    IN  Timedelta(num.n * SecondsPer(text[Len(text)]), num.d)

IsLeap(y) == (y % 4 = 0 /\ y % 100 # 0) \/ y % 400 = 0

DaysInMonth(y, m) ==
    IF m = 2 THEN (IF IsLeap(y) THEN 29 ELSE 28)
    ELSE IF m \in {4, 6, 9, 11} THEN 30 ELSE 31

\* Days from 1970-01-01 to the proleptic Gregorian date y-m-d.
DaysFromCivil(y, m, d) ==
    LET yy == IF m <= 2 THEN y - 1 ELSE y
        era == yy \div 400
        yoe == yy - era * 400
        mp == IF m > 2 THEN m - 3 ELSE m + 9
        doy == (153 * mp + 2) \div 5 + d - 1
        doe == yoe * 365 + yoe \div 4 - yoe \div 100 + doy
    IN  era * 146097 + doe - 719468

\* DatetimeLiteral._evaluate: datetime.fromisoformat on a text of the datetime
\* pattern.  The offset is kept as written; out-of-range fields raise.
DatetimeValue(text) ==
    LET y == IntOf(SubSeq(text, 1, 4))
        mo == IntOf(SubSeq(text, 6, 7))
        d == IntOf(SubSeq(text, 9, 10))
        h == IntOf(SubSeq(text, 12, 13))
        mi == IntOf(SubSeq(text, 15, 16))
        sec == IntOf(SubSeq(text, 18, 19))
        off == IF text[20] = "Z" THEN 0
               ELSE (IF text[20] = "-" THEN -1 ELSE 1)
                    * (IntOf(SubSeq(text, 21, 22)) * 3600
                       + IntOf(SubSeq(text, 24, 25)) * 60)
    IN  IF \/ y < 1 \/ mo < 1 \/ mo > 12 \/ d < 1 \/ d > DaysInMonth(y, mo)
           \/ h > 23 \/ mi > 59 \/ sec > 59 \/ Abs(off) >= 86400
        THEN [error |-> Raise("ValueError", 100), value |-> NoValue]
        ELSE [error |-> NoError,
              value |-> Datetime(DaysFromCivil(y, mo, d) * 86400
                                 + h * 3600 + mi * 60 + sec, 1, TRUE, off)]

Ok(v) == [error |-> NoError, value |-> v]
Fail(t, l) == [error |-> Raise(t, l), value |-> NoValue]

\* The operand kinds Python's operator accepts, and the kind it returns;
\* "TypeError" when the operator is not defined for the pair.
NativeKind(op, lk, rk) ==
    CASE op \in {"+", "-"} /\ lk = "float" /\ rk = "float" -> "float"
      [] op \in {"+", "-"} /\ lk = "timedelta" /\ rk = "timedelta" -> "timedelta"
      [] op \in {"+", "-"} /\ lk = "datetime" /\ rk = "timedelta" -> "datetime"
      [] op = "+" /\ lk = "timedelta" /\ rk = "datetime" -> "datetime"
      [] op = "-" /\ lk = "datetime" /\ rk = "datetime" -> "timedelta"
      [] op \in {"*", "/"} /\ lk = "float" /\ rk = "float" -> "float"
      [] op = "*" /\ lk = "float" /\ rk = "timedelta" -> "timedelta"
      [] op \in {"*", "/"} /\ lk = "timedelta" /\ rk = "float" -> "timedelta"
      [] op = "/" /\ lk = "timedelta" /\ rk = "timedelta" -> "float"
      [] OTHER -> "TypeError"

\* The source line of the match case that applies op.
OpLine(op) ==
    CASE op = "+" -> 181 [] op = "-" -> 183 [] op = "*" -> 185 [] op = "/" -> 187

\* lval <op> rval of BinOp._evaluate.
NativeOp(op, l, r) ==
    LET k == NativeKind(op, l.kind, r.kind)
    IN  IF k = "TypeError" THEN Fail("TypeError", OpLine(op))
        ELSE IF l.kind = "datetime" /\ r.kind = "datetime"
        THEN \* an aware and a naive datetime cannot be subtracted
             IF l.aware # r.aware THEN Fail("TypeError", OpLine(op))
             ELSE Ok(Timedelta((l.n - l.utcoffset * l.d) * r.d
                               - (r.n - r.utcoffset * r.d) * l.d, l.d * r.d))
        ELSE IF "datetime" \in {l.kind, r.kind}
        THEN LET t == IF l.kind = "datetime" THEN l ELSE r
                 delta == IF l.kind = "datetime" THEN r ELSE l
                 sg == IF op = "+" THEN 1 ELSE -1
             IN  Ok(Datetime(t.n * delta.d + sg * delta.n * t.d, t.d * delta.d,
                             t.aware, t.utcoffset))
        ELSE IF op = "/" /\ r.n = 0 THEN Fail("ZeroDivisionError", 187)
        ELSE LET q == CASE op = "+" -> Float(l.n * r.d + r.n * l.d, l.d * r.d)
                        [] op = "-" -> Float(l.n * r.d - r.n * l.d, l.d * r.d)
                        [] op = "*" -> Float(l.n * r.n, l.d * r.d)
                        [] op = "/" -> Float(l.n * r.d, l.d * r.n)
             IN  Ok([q EXCEPT !.kind = k])

\* Identifier._evaluate on an object whose _dt is v.  Reading a _dt that was
\* never set raises AttributeError before the None test is made.
IdentifierValue(v) ==
    IF v.kind = "no attribute" THEN Fail("AttributeError", 206)
    ELSE IF v.kind = "NoneType" \/ v.kind # "datetime" THEN Fail("RuntimeError", 207)
    ELSE Ok(v)

RECURSIVE Eval(_, _)
\* Node.evaluate with the Identifier objects' _dt attributes as in dtv.
Eval(n, dtv) ==
    CASE n.node = "DatetimeLiteral" -> DatetimeValue(n.text)
      [] n.node = "DurationLiteral" -> Ok(DurationValue(n.text))
      [] n.node = "NumberLiteral" -> Ok(float(n.text))
      [] n.node = "Identifier" -> IdentifierValue(dtv[n.ref])
      [] n.node = "BinOp" ->
            LET lval == Eval(n.lhs, dtv)
            IN  IF lval.error # NoError THEN lval
                ELSE LET rval == Eval(n.rhs, dtv)
                     IN  IF rval.error # NoError THEN rval
                         ELSE NativeOp(n.op, lval.value, rval.value)

----------------------------------------------------------------------------
(* DTCalc: bindings and evaluation *)

\* A mutant of set_value: a value once set is never replaced.
set_valueOnce(dtv, ref, v) ==
    IF dtv[ref].kind = "no attribute" THEN [dtv EXCEPT ![ref] = v] ELSE dtv

\* Identifier.set_value on the object ref: self._dt = dt.
set_value(dtv, ref, v) == [dtv EXCEPT ![ref] = v]

RECURSIVE ApplyBindingsSkipUnknown(_, _, _)
\* A mutant of ApplyBindings: a name that is not in the table is passed over.
ApplyBindingsSkipUnknown(kw, ids, dtv) ==
    IF Len(kw) = 0 THEN [error |-> NoError, dt |-> dtv, done |-> 0]
    ELSE IF Head(kw).name \notin DOMAIN ids
    THEN ApplyBindingsSkipUnknown(Tail(kw), ids, dtv)
    ELSE LET r == ApplyBindingsSkipUnknown(
                      Tail(kw), ids, set_value(dtv, ids[Head(kw).name], Head(kw).value))
         IN  [r EXCEPT !.done = r.done + 1]

RECURSIVE ApplyBindings(_, _, _)
\* The for loop of DTCalc.evaluate over its keyword arguments, in the order
\* they were passed: self.identifiers[name].set_value(value).  done counts the
\* set_value calls made; an unknown name raises KeyError and ends the loop.
ApplyBindings(kw, ids, dtv) ==
    IF Len(kw) = 0 THEN [error |-> NoError, dt |-> dtv, done |-> 0]
    ELSE IF Head(kw).name \notin DOMAIN ids
    THEN [error |-> Raise("KeyError", 372), dt |-> dtv, done |-> 0]
    ELSE LET r == ApplyBindings(
                      Tail(kw), ids, set_value(dtv, ids[Head(kw).name], Head(kw).value))
         IN  [r EXCEPT !.done = r.done + 1]

RECURSIVE Record(_, _, _)
\* History: hist after the first n bindings of kw were passed to set_value.
Record(kw, n, hist) ==
    IF n = 0 THEN hist
    ELSE Record(Tail(kw), n - 1, [hist EXCEPT ![Head(kw).name] = Head(kw).value])

Call(op, args) == [op |-> op, args |-> args]

NoCall == Call("none", <<>>)

NotBuilt == [made |-> FALSE, op |-> "", lhs |-> NoNode, rhs |-> NoNode,
             error |-> NoError, node |-> NoNode]

----------------------------------------------------------------------------
(* Actions *)

\* tokens = tokenize(s), the first statement of DTCalc.from_string
Tokenize ==
    /\ phase = "source"
    /\ LET r == tokenize(source)
       IN  /\ tokens' = r.tokens
           /\ error' = r.error
           /\ phase' = IF r.error = NoError THEN "lexed" ELSE "failed"
    /\ last' = Call("tokenize", source)
    /\ UNCHANGED <<source, root, identifiers, objs, dt, result, built, lastSet>>

\* identifiers = {}; root = _parse(tokens, identifiers); return cls(root,
\* identifiers).  The token list is consumed from its front as the parser
\* reads; every Identifier object is new, with no _dt attribute.
Parse ==
    /\ phase = "lexed"
    /\ LET r == from_tokens(tokens)
       IN  /\ tokens' = r.tokens
           /\ error' = r.error
           /\ phase' = IF r.error = NoError THEN "parsed" ELSE "failed"
           /\ root' = IF r.error = NoError THEN r.node ELSE NoNode
           /\ identifiers' = IF r.error = NoError THEN r.identifiers ELSE EmptyTable
           /\ objs' = IF r.error = NoError THEN r.objs ELSE <<>>
           /\ dt' = IF r.error = NoError THEN [i \in DOMAIN r.objs |-> Unset] ELSE <<>>
           /\ lastSet' = IF r.error = NoError
                         THEN [n \in DOMAIN r.identifiers |-> Unset]
                         ELSE EmptyTable
    /\ last' = Call("parse", tokens)
    /\ UNCHANGED <<source, result, built>>

\* c.identifiers[name].set_value(v), for a name of the table
SetValue(name, v) ==
    /\ phase = "parsed"
    /\ name \in DOMAIN identifiers
    /\ dt' = set_value(dt, identifiers[name], v)
    /\ lastSet' = [lastSet EXCEPT ![name] = v]
    /\ last' = Call("set_value", <<name, v>>)
    /\ error' = NoError
    /\ UNCHANGED <<phase, source, tokens, root, identifiers, objs, result, built>>

\* c.evaluate(**kw): kw is the sequence of keyword arguments, names distinct
Evaluate(kw) ==
    /\ phase = "parsed"
    /\ LET b == ApplyBindings(kw, identifiers, dt)
           e == IF b.error = NoError THEN Eval(root, b.dt)
                ELSE [error |-> b.error, value |-> NoValue]
       IN  /\ dt' = b.dt
           /\ lastSet' = Record(kw, b.done, lastSet)
           /\ error' = e.error
           /\ result' = e.value
    /\ last' = Call("evaluate", kw)
    /\ UNCHANGED <<phase, source, tokens, root, identifiers, objs, built>>

RECURSIVE Depth(_)
Depth(n) == IF n.node = "BinOp"
            THEN 1 + (IF Depth(n.lhs) > Depth(n.rhs) THEN Depth(n.lhs) ELSE Depth(n.rhs))
            ELSE 0

\* BinOp(op, lhs, rhs) called directly on two nodes
Construct(op, lhs, rhs) ==
    /\ phase = "idle"
    /\ Depth(lhs) < MaxDepth
    /\ Depth(rhs) < MaxDepth
    /\ LET b == BinOp(op, lhs, rhs)
       IN  built' = [made |-> TRUE, op |-> op, lhs |-> lhs, rhs |-> rhs,
                     error |-> b.error, node |-> b.node]
    /\ last' = Call("BinOp", <<op, lhs, rhs>>)
    /\ UNCHANGED <<phase, source, tokens, error, root, identifiers, objs, dt,
                   result, lastSet>>

----------------------------------------------------------------------------
(* Inputs *)

T_now == <<"n", "o", "w">>
T_t == <<"t">>
T_bogus == <<"b", "o", "g", "u", "s">>
T_2 == <<"2">>
T_0 == <<"0">>
T_4d == <<"4", "d">>
T_15d == <<"1", "5", "d">>
T_half == <<"0", ".", "5">>
T_date == <<"1", "9", "7", "0", "-", "0", "1", "-", "0", "2", "T",
            "0", "4", ":", "3", "0", ":", "0", "5", "Z">>
T_tzdate == <<"1", "9", "7", "0", "-", "0", "1", "-", "0", "2", "T",
              "0", "4", ":", "3", "0", ":", "0", "5", "+", "0", "7", ":", "0", "0">>
SP == <<" ">>

RECURSIVE Concat(_)
\* The pieces of ps joined end to end.
Concat(ps) == IF Len(ps) = 0 THEN <<>> ELSE Head(ps) \o Concat(Tail(ps))

SeqsUpTo(S, k) == UNION { [1..n -> S] : n \in 0..k }

\* Pieces of the sources for the tokenizer alone: among them characters no
\* pattern accepts and the two forms of a datetime literal.
LexPieces ==
    { SP, <<"\t">>, <<"\n">>, <<"#">>, <<"4">>, <<".">>, <<"d">>, <<"n">>, <<"_">>,
      <<"(">>, <<")">>, <<"+">>, <<"-">>, <<"*">>, <<"/">>, T_date, T_tzdate }

LP == Token("LEFT_PAREN", <<"(">>)
RP == Token("RIGHT_PAREN", <<")">>)
OpTokens == { Token("BINOP", <<o>>) : o \in Operators }

AtomTokens ==
    { Token("LITERAL_NUMBER", T_2), Token("LITERAL_DURATION", T_4d),
      Token("LITERAL_DATETIME", T_date), Token("IDENTIFIER", T_now) }

TokenAlphabet == AtomTokens \cup { Token("IDENTIFIER", T_t), LP, RP } \cup OpTokens

RECURSIVE ExprFrom(_, _, _, _, _)
\* Atoms k..n joined by the operators, one pair of parentheses opening before
\* atom lp and closing after atom rp (none when lp = 0).
ExprFrom(k, atoms, ops, lp, rp) ==
    IF k > Len(atoms) THEN <<>>
    ELSE (IF k = lp THEN <<LP>> ELSE <<>>) \o <<atoms[k]>>
         \o (IF k = rp THEN <<RP>> ELSE <<>>)
         \o (IF k < Len(atoms) THEN <<ops[k]>> ELSE <<>>)
         \o ExprFrom(k + 1, atoms, ops, lp, rp)

\* Where the one pair of parentheses of an expression of n atoms may stand:
\* nowhere, or from before one atom to after it or a later one.
ParenSpans(n) == {<<0, 0>>} \cup { pr \in (1..n) \X (1..n) : pr[1] <= pr[2] }

\* Expressions that are parsed once and then bound and evaluated repeatedly.
EvalSources ==
    { T_now \o SP \o <<"+">> \o SP \o T_15d \o SP \o <<"*">> \o SP \o T_2,
      T_now \o SP \o <<"-">> \o SP \o T_t,
      T_now,
      <<"(">> \o T_now \o <<"-">> \o T_now \o <<")">> \o <<"*">> \o T_half,
      T_4d \o <<"-">> \o T_now,
      T_tzdate \o <<"-">> \o T_now,
      T_2 \o <<"/">> \o T_0,
      T_4d \o SP \o <<")">> \o T_t,
      T_now \o <<"+">> \o T_t,
      T_now \o <<"\t">> }

\* 1970-01-10T02:03:04+05:00, and the naive datetime 1970-01-03T00:00:00.
\* All dates of the model lie close to 1970 so that the second counts of the
\* arithmetic stay small.
DateA == Datetime(DaysFromCivil(1970, 1, 10) * 86400 + 7384, 1, TRUE, 18000)
DateNaive == Datetime(DaysFromCivil(1970, 1, 3) * 86400, 1, FALSE, 0)

\* What a caller passes as a binding: datetimes, None, and a float.
BindValues == {DateA, DateNaive, None, Float(1, 1)}

BindNames == {T_now, T_t, T_bogus}

\* Keyword arguments: up to k bindings with distinct names.
KwargsOver(names, values, k) ==
    { kw \in SeqsUpTo([name : names, value : values], k) :
        \A i, j \in DOMAIN kw : i # j => kw[i].name # kw[j].name }

----------------------------------------------------------------------------
(* Specifications *)

\* parse(s) of a source string, then bindings and evaluations on its result.
Init ==
    /\ phase = "source"
    /\ source \in EvalSources
    /\ tokens = <<>>
    /\ error = NoError
    /\ root = NoNode
    /\ identifiers = EmptyTable
    /\ objs = <<>>
    /\ dt = <<>>
    /\ result = NoValue
    /\ built = NotBuilt
    /\ last = NoCall
    /\ lastSet = EmptyTable

Next ==
    \/ Tokenize
    \/ Parse
    \/ \E name \in BindNames, v \in BindValues : SetValue(name, v)
    \/ \E kw \in KwargsOver(BindNames, BindValues, MaxKwargs) : Evaluate(kw)

Spec == Init /\ [][Next]_vars

\* tokenize(s) of any short string.
InitLex ==
    /\ phase = "source"
    /\ \E ps \in SeqsUpTo(LexPieces, MaxPieces) : source = Concat(ps)
    /\ tokens = <<>>
    /\ error = NoError
    /\ root = NoNode
    /\ identifiers = EmptyTable
    /\ objs = <<>>
    /\ dt = <<>>
    /\ result = NoValue
    /\ built = NotBuilt
    /\ last = NoCall
    /\ lastSet = EmptyTable

NextLex == Tokenize

SpecLex == InitLex /\ [][NextLex]_vars

\* The parser on any token list of up to MaxTokens tokens and on any
\* expression of up to MaxAtoms atoms joined by operators, then one evaluation with every identifier of
\* the table bound to a timestamp.
InitParse ==
    /\ phase = "lexed"
    /\ \/ tokens \in SeqsUpTo(TokenAlphabet, MaxTokens)
       \/ \E n \in 1..MaxAtoms :
             \E a \in [1..n -> AtomTokens], o \in [1..(n - 1) -> OpTokens],
                pr \in ParenSpans(n) :
                tokens = ExprFrom(1, a, o, pr[1], pr[2])
    /\ source = <<>>
    /\ error = NoError
    /\ root = NoNode
    /\ identifiers = EmptyTable
    /\ objs = <<>>
    /\ dt = <<>>
    /\ result = NoValue
    /\ built = NotBuilt
    /\ last = NoCall
    /\ lastSet = EmptyTable

EvaluateBound ==
    /\ last.op = "parse"
    /\ \E kw \in KwargsOver(DOMAIN identifiers, {DateA}, Cardinality(DOMAIN identifiers)) :
          /\ Len(kw) = Cardinality(DOMAIN identifiers)
          /\ Evaluate(kw)

NextParse == Parse \/ EvaluateBound

SpecParse == InitParse /\ [][NextParse]_vars

Leaves ==
    { DatetimeLiteral(T_date), DurationLiteral(T_4d), NumberLiteral(T_2), Identifier(1) }

\* BinOp constructed directly, on leaves and on nodes constructed before.
InitUnits ==
    /\ phase = "idle"
    /\ objs = <<[name |-> T_now]>>
    /\ dt = <<Unset>>
    /\ source = <<>>
    /\ tokens = <<>>
    /\ error = NoError
    /\ root = NoNode
    /\ identifiers = EmptyTable
    /\ result = NoValue
    /\ built = NotBuilt
    /\ last = NoCall
    /\ lastSet = EmptyTable

NextUnits ==
    \E op \in Operators, lhs, rhs \in (Leaves \cup {built.node}) \ {NoNode} :
        Construct(op, lhs, rhs)

SpecUnits == InitUnits /\ [][NextUnits]_vars

----------------------------------------------------------------------------
(* Definitions the properties are stated with *)

RECURSIVE IdentifierRefs(_)
\* The Identifier objects the nodes of a tree refer to.
IdentifierRefs(n) ==
    IF n.node = "BinOp" THEN IdentifierRefs(n.lhs) \cup IdentifierRefs(n.rhs)
    ELSE IF n.node = "Identifier" THEN {n.ref}
    ELSE {}

\* The names of the IDENTIFIER tokens of a token list.
IdentifierNames(toks) ==
    { toks[i].value : i \in { j \in DOMAIN toks : toks[j].type = "IDENTIFIER" } }

RECURSIVE Shape(_, _)
\* A tree with its leaves written as the tokens they came from.
Shape(n, os) ==
    CASE n.node = "BinOp" ->
            [op |-> n.op, lhs |-> Shape(n.lhs, os), rhs |-> Shape(n.rhs, os)]
      [] n.node = "Identifier" -> Token("IDENTIFIER", os[n.ref].name)
      [] n.node = "DatetimeLiteral" -> Token("LITERAL_DATETIME", n.text)
      [] n.node = "DurationLiteral" -> Token("LITERAL_DURATION", n.text)
      [] n.node = "NumberLiteral" -> Token("LITERAL_NUMBER", n.text)

IsLeaf(sh) == "type" \in DOMAIN sh

\* The reference grammar, by recursive descent with one function per level:
\*     expr ::= term { ("+" | "-") term }
\*     term ::= atom { ("*" | "/") atom }
\*     atom ::= literal | identifier | "(" expr ")"
\* Each function returns the tree read and the tokens left, or ok = FALSE.
RefFail == [ok |-> FALSE, tree |-> <<>>, rest |-> <<>>]

RECURSIVE RefAtom(_)
RECURSIVE RefTermLoop(_, _)
RECURSIVE RefExprLoop(_, _)

RefTerm(toks) ==
    LET a == RefAtom(toks) IN IF a.ok THEN RefTermLoop(a.tree, a.rest) ELSE RefFail

RefExpr(toks) ==
    LET t == RefTerm(toks) IN IF t.ok THEN RefExprLoop(t.tree, t.rest) ELSE RefFail

RefAtom(toks) ==
    IF Len(toks) = 0 THEN RefFail
    ELSE IF Head(toks).type \in {"LITERAL_DATETIME", "LITERAL_DURATION",
                                 "LITERAL_NUMBER", "IDENTIFIER"}
    THEN [ok |-> TRUE, tree |-> Head(toks), rest |-> Tail(toks)]
    ELSE IF Head(toks).type = "LEFT_PAREN"
    THEN LET e == RefExpr(Tail(toks))
         IN  IF e.ok /\ Len(e.rest) > 0 /\ Head(e.rest).type = "RIGHT_PAREN"
             THEN [e EXCEPT !.rest = Tail(e.rest)]
             ELSE RefFail
    ELSE RefFail

RefTermLoop(left, toks) ==
    IF Len(toks) > 0 /\ Head(toks).type = "BINOP" /\ Head(toks).value[1] \in {"*", "/"}
    THEN LET a == RefAtom(Tail(toks))
         IN  IF a.ok
             THEN RefTermLoop([op |-> Head(toks).value[1], lhs |-> left, rhs |-> a.tree],
                              a.rest)
             ELSE RefFail
    ELSE [ok |-> TRUE, tree |-> left, rest |-> toks]

RefExprLoop(left, toks) ==
    IF Len(toks) > 0 /\ Head(toks).type = "BINOP" /\ Head(toks).value[1] \in {"+", "-"}
    THEN LET t == RefTerm(Tail(toks))
         IN  IF t.ok
             THEN RefExprLoop([op |-> Head(toks).value[1], lhs |-> left, rhs |-> t.tree],
                              t.rest)
             ELSE RefFail
    ELSE [ok |-> TRUE, tree |-> left, rest |-> toks]

\* The fixed compatibility table: left, right, operators, result.
CompatibilityTable ==
    { <<"NUMBER", "NUMBER", {"+", "-", "*", "/"}, "NUMBER">>,
      <<"NUMBER", "DURATION", {"*"}, "DURATION">>,
      <<"DURATION", "NUMBER", {"*", "/"}, "DURATION">>,
      <<"DURATION", "DURATION", {"+", "-"}, "DURATION">>,
      <<"DURATION", "DATETIME", {"+", "-"}, "DATETIME">>,
      <<"DATETIME", "DURATION", {"+", "-"}, "DATETIME">>,
      <<"DATETIME", "DATETIME", {"-"}, "DURATION">> }

TableRows(lunit, runit, op) ==
    { row \in CompatibilityTable : row[1] = lunit /\ row[2] = runit /\ op \in row[3] }

RECURSIVE TableUnit(_)
\* The unit the table gives a reference tree, "None" when some operation of
\* the tree is not a row of the table.
TableUnit(sh) ==
    IF IsLeaf(sh)
    THEN CASE sh.type = "LITERAL_NUMBER" -> "NUMBER"
           [] sh.type = "LITERAL_DURATION" -> "DURATION"
           [] OTHER -> "DATETIME"
    ELSE LET rows == TableRows(TableUnit(sh.lhs), TableUnit(sh.rhs), sh.op)
         IN  IF rows = {} THEN "None" ELSE (CHOOSE row \in rows : TRUE)[4]

\* The characters that occur in some token.
TokenChars ==
    Digits \cup Lower \cup Upper \cup {"_", ".", ":", "-", "+", "*", "/", "(", ")"}

Unbound(v) == v.kind \in {"no attribute", "NoneType"}

\* The bindings as the history of set_value calls gives them, per object.
BoundByHistory == [i \in DOMAIN objs |-> lastSet[objs[i].name]]

----------------------------------------------------------------------------
(* Properties *)

\* C1: evaluating an accepted expression whose identifiers are all bound to
\* timestamps never fails because of the kinds of a binary operation's two
\* operands (a TypeError of the native operator); a division by zero is not
\* such a failure.
OperandKindsAlwaysApplicable ==
    (last.op = "evaluate" /\ \A i \in DOMAIN dt : dt[i].kind = "datetime")
        => error.type # "TypeError"

\* C2: constructing a BinOp succeeds exactly when (left unit, right unit,
\* operator) is a row of the compatibility table, the node then has the row's
\* result unit, and every other triple raises and produces no node.
ConstructionFollowsTable ==
    built.made =>
        LET rows == TableRows(built.lhs.unit, built.rhs.unit, built.op)
        IN  IF rows # {}
            THEN /\ built.error = NoError
                 /\ built.node.node = "BinOp"
                 /\ \A row \in rows : built.node.unit = row[4]
            ELSE /\ built.error.type = "TypeError"
                 /\ built.node = NoNode

ConstructionFollowsTable_Witness ==
    /\ built.made
    /\ built.error = NoError
    /\ built.op = "-"
    /\ built.lhs.node = "BinOp" /\ built.lhs.unit = "DATETIME"
    /\ built.rhs.unit = "DATETIME"
    /\ built.node.unit = "DURATION"

\* C3: an evaluation that meets an identifier with no value (never set, or
\* set to None) and fails for no other reason fails with the evaluator's own
\* "Undefined identifier" error and returns nothing.
UnboundIdentifierRaisesEvalError ==
    ( /\ last.op = "evaluate"
      /\ \E ref \in IdentifierRefs(root) : Unbound(dt[ref])
      /\ error.type \notin {"KeyError", "TypeError", "ZeroDivisionError", "ValueError"} )
        => (error = Raise("RuntimeError", 207) /\ result = NoValue)

\* C4: every evaluation reads, for each identifier, the value most recently
\* passed to set_value for its name, directly or through evaluate's keyword
\* arguments; a binding stays until the name is bound again; binding and
\* evaluating never change the tree or the table.
EvaluationReadsLatestBindings ==
    /\ [](phase = "parsed" => dt = BoundByHistory)
    /\ []((last.op = "evaluate" /\ error.type # "KeyError")
            => [error |-> error, value |-> result] = Eval(root, BoundByHistory))
    /\ [][phase = "parsed"
            => /\ root' = root /\ identifiers' = identifiers /\ objs' = objs
               /\ (last'.op = "evaluate"
                     => \A n \in DOMAIN lastSet :
                          (\A i \in DOMAIN last'.args : last'.args[i].name # n)
                              => dt'[identifiers[n]] = dt[identifiers[n]])]_vars

EvaluationReadsLatestBindings_Witness ==
    /\ last.op = "evaluate"
    /\ last.args = <<>>
    /\ error = NoError
    /\ Cardinality(IdentifierRefs(root)) = 2
    /\ result.kind = "timedelta"

\* C5: after a successful parse the table has exactly one entry per distinct
\* identifier name of the source expression, and every Identifier node of the
\* tree is the table's entry for its name.
TableHoldsEverySourceIdentifier ==
    (last.op = "parse" /\ error = NoError)
        => /\ DOMAIN identifiers = IdentifierNames(last.args)
           /\ Len(objs) = Cardinality(DOMAIN identifiers)
           /\ \A ref \in IdentifierRefs(root) : identifiers[objs[ref].name] = ref

\* The part of C5 that does not depend on the whole source being read: one
\* object per name of the table, and every Identifier node of the tree is the
\* table's entry for its name.
IdentifierNodesAreTableEntries ==
    phase = "parsed"
        => /\ Len(objs) = Cardinality(DOMAIN identifiers)
           /\ \A n \in DOMAIN identifiers : objs[identifiers[n]].name = n
           /\ \A ref \in IdentifierRefs(root) : identifiers[objs[ref].name] = ref

RECURSIVE SpacedText(_)
\* The texts of a token list written one after the other, a space between.
SpacedText(toks) ==
    IF Len(toks) = 0 THEN <<>>
    ELSE IF Len(toks) = 1 THEN Head(toks).value
    ELSE Head(toks).value \o SP \o SpacedText(Tail(toks))

\* Every token list the parser is started on is one tokenize returns: for the
\* source that spells its tokens with spaces between them.
ParserInputsAreTokenizable ==
    (phase = "lexed" /\ last = NoCall)
        => tokenize(SpacedText(tokens)) = [error |-> NoError, tokens |-> tokens]

\* C6: parse never returns a parsed expression while a token is left unread.
ParseConsumesEveryToken ==
    (last.op = "parse" /\ error = NoError) => tokens = <<>>

\* C7: for a unit-legal expression of atoms joined by operators, the tree
\* built is the one of the reference grammar: "*" and "/" bind tighter than
\* "+" and "-", equal levels group to the left, and a parenthesised expression
\* stands for one atom.
TreeMatchesReferenceGrammar ==
    last.op = "parse" =>
        LET ref == RefExpr(last.args)
        IN  (ref.ok /\ ref.rest = <<>> /\ TableUnit(ref.tree) # "None")
                => /\ error = NoError
                   /\ tokens = <<>>
                   /\ Shape(root, objs) = ref.tree

TreeMatchesReferenceGrammar_Witness ==
    /\ last.op = "parse"
    /\ error = NoError
    /\ Len(last.args) = 5
    /\ \A i \in DOMAIN last.args : last.args[i].type \notin {"LEFT_PAREN", "RIGHT_PAREN"}
    /\ root.op = "-"
    /\ root.lhs.node = "BinOp" /\ root.lhs.op = "-"
    /\ root.rhs.node = "NumberLiteral"

\* C8: tokenize fails, or the texts of its tokens joined in order are the
\* source without its spaces; a character that belongs to no token pattern,
\* a tab or a newline among them, makes it fail.
TokensSpellSourceWithoutSpaces ==
    last.op = "tokenize" =>
        /\ error = NoError
             => Concat([i \in DOMAIN tokens |-> tokens[i].value])
                    = SelectSeq(source, LAMBDA c : c # " ")
        /\ error # NoError => error.type = "RuntimeError"
        /\ (\E i \in DOMAIN source : source[i] \notin TokenChars \cup {" "})
             => error # NoError

TokensSpellSourceWithoutSpaces_Witness ==
    /\ last.op = "tokenize"
    /\ error = NoError
    /\ Len(tokens) = 2
    /\ tokens[1].type = "LITERAL_DATETIME"
    /\ \E i \in DOMAIN source : source[i] = " "

\* C9: each malformed-input exit of _parse_atom (no token where an atom is
\* expected, no token or another token where the closing parenthesis is due,
\* an operator or right parenthesis where an atom is expected) is a ParseError.
MalformedInputRaisesParseError ==
    (last.op = "parse" /\ error.line \in {271, 294, 299, 306})
        => error.type = "ParseError"

\* C10 as claimed: an evaluate call that fails leaves the bindings as they
\* were before the call.
FailedEvaluateLeavesBindings ==
    [][(last'.op = "evaluate" /\ error' # NoError) => dt' = dt]_vars

\* The number of leading keyword arguments whose names are in the table.
RECURSIVE KnownPrefix(_)
KnownPrefix(kw) ==
    IF Len(kw) = 0 \/ Head(kw).name \notin DOMAIN identifiers THEN 0
    ELSE 1 + KnownPrefix(Tail(kw))

\* C10 as amended: a failed evaluate call leaves every name it did not bind
\* as it was and each name it bound before failing at the value passed; a
\* name that is not in the table raises KeyError before the root is
\* evaluated, with exactly the names passed before it bound.
FailedEvaluateKeepsBindingsMade ==
    [][(last'.op = "evaluate" /\ error' # NoError) =>
          LET kw == last'.args
              k == KnownPrefix(kw)
          IN  /\ \A n \in DOMAIN identifiers :
                    dt'[identifiers[n]] =
                        IF \E i \in 1..k : kw[i].name = n
                        THEN kw[CHOOSE i \in 1..k : kw[i].name = n].value
                        ELSE dt[identifiers[n]]
              /\ k < Len(kw) => (error' = Raise("KeyError", 372) /\ result' = NoValue)
              /\ k = Len(kw) => error'.type # "KeyError"]_vars

FailedEvaluateKeepsBindingsMade_Witness ==
    /\ last.op = "evaluate"
    /\ error.type = "KeyError"
    /\ Len(last.args) = 2
    /\ last.args[2].name = T_bogus
    /\ last.args[1].name = T_now
    /\ DOMAIN identifiers = {T_now, T_t}
    /\ dt[identifiers[T_now]] = last.args[1].value
    /\ dt[identifiers[T_t]] = Unset

====
